---- MODULE Spec2Model ----
(***************************************************************************)
(* A model of RuzzleSolver (ruzzle_bare_minimum.py): the depth-first word  *)
(* search of all_combos / dfs over the letter board, and the post-         *)
(* processing of check_words.                                              *)
(*                                                                         *)
(* The search is modelled one step of dfs at a time, with an explicit      *)
(* call stack, because several properties speak about the state between    *)
(* the steps (the visited marks, the shared path buffer).  Python lists    *)
(* are objects: every traversal allocates one path list, and a record of   *)
(* possible_words holds either a private copy of it (path[:]) or the list  *)
(* itself (path).  The model keeps the lists in `paths` and lets a record  *)
(* name the list it holds.                                                 *)
(*                                                                         *)
(* Words are sequences of one-letter strings.                              *)
(***************************************************************************)
EXTENDS Integers, Sequences, FiniteSets, TLC

(***************************************************************************)
(* Configuration.  MIN_WORD_LEN and PREFIX_LOWER_BOUND have the program's  *)
(* values.  The program fixes BOARD_SIZE = 4, MAX_WORD_LEN = 12 and        *)
(* PREFIX_UPPER_BOUND = 8; the model scales these three down, keeping      *)
(* their order (PREFIX_UPPER_BOUND < MAX_WORD_LEN < number of cells) and   *)
(* keeping MAX_WORD_LEN above 4, where the length bonus starts to grow.    *)
(***************************************************************************)
MIN_WORD_LEN == 2
MAX_WORD_LEN == 5
BOARD_SIZE == 3
PREFIX_LOWER_BOUND == 2
PREFIX_UPPER_BOUND == 3

VARIABLES
    board,          \* self.board: cell -> letter
    word_mults,     \* self.word_mults: cell -> multiplier tag
    DICTIONARY,     \* global DICTIONARY: set of words
    PREFIXES,       \* global PREFIXES: list of prefix sets, one per length
    pruning,        \* TRUE: the prefix check of dfs is active (the program)
    pc,             \* where the solver is
    next_start,     \* all_combos: 1-based row-major index of the next start cell
    visited,        \* the visited dict of the current traversal
    paths,          \* the path lists allocated so far; the last is the current one
    stack,          \* the call stack of dfs
    possible_words, \* self.possible_words
    words_info,     \* self.words_info
    remove_bases,   \* argument of the last check_words call
    pruned_words    \* word strings found by the run with the prefix check

vars == <<board, word_mults, DICTIONARY, PREFIXES, pruning, pc, next_start,
          visited, paths, stack, possible_words, words_info, remove_bases,
          pruned_words>>

inputs == <<board, word_mults, DICTIONARY, PREFIXES>>

----------------------------------------------------------------------------
(* Cells and the adjacency graph *)

Cells == (0 .. BOARD_SIZE - 1) \X (0 .. BOARD_SIZE - 1)

\* range(BOARD_SIZE) x range(BOARD_SIZE), row by row; k is 1-based
StartCell(k) == << (k - 1) \div BOARD_SIZE, (k - 1) % BOARD_SIZE >>

NumCells == BOARD_SIZE * BOARD_SIZE

None == << >>

directions ==
    << <<1, 0>>, <<-1, 0>>, <<0, 1>>, <<0, -1>>,
       <<1, 1>>, <<1, -1>>, <<-1, 1>>, <<-1, -1>> >>

InBounds(x, y) ==
    /\ 0 <= x /\ x < BOARD_SIZE
    /\ 0 <= y /\ y < BOARD_SIZE

gen_graph ==
    [c \in Cells |->
        LET cand == [i \in 1 .. Len(directions) |->
                        << c[1] + directions[i][1], c[2] + directions[i][2] >>]
        IN  SelectSeq(cand, LAMBDA v : InBounds(v[1], v[2]))]

graph == gen_graph

Adjacent(a, b) ==
    /\ a # b
    /\ a[1] - b[1] \in {-1, 0, 1}
    /\ a[2] - b[2] \in {-1, 0, 1}

----------------------------------------------------------------------------
(* Points and multipliers *)

letter_points ==
    "A" :> 1 @@ "B" :> 4 @@ "C" :> 4 @@ "D" :> 2 @@ "E" :> 1 @@ "F" :> 4 @@
    "G" :> 3 @@ "H" :> 4 @@ "I" :> 1 @@ "J" :> 10 @@ "K" :> 5 @@ "L" :> 1 @@
    "M" :> 3 @@ "N" :> 1 @@ "O" :> 1 @@ "P" :> 4 @@ "Q" :> 10 @@ "R" :> 1 @@
    "S" :> 1 @@ "T" :> 1 @@ "U" :> 2 @@ "V" :> 4 @@ "W" :> 4 @@ "X" :> 8 @@
    "Y" :> 4 @@ "Z" :> 8

get_letter_pts(l) == letter_points[l]

\* points[x][y]: the letter's value, doubled on 'D', tripled on 'T'
get_points(c) ==
    LET pts == get_letter_pts(board[c])
        mult == word_mults[c]
    IN  IF mult = "D" THEN pts * 2
        ELSE IF mult = "T" THEN pts * 3
        ELSE pts

digit_value ==
    "0" :> 0 @@ "1" :> 1 @@ "2" :> 2 @@ "3" :> 3 @@ "4" :> 4 @@
    "5" :> 5 @@ "6" :> 6 @@ "7" :> 7 @@ "8" :> 8 @@ "9" :> 9

\* word_int_mults[x][y]: int(tag) if tag.isdigit() else 1
word_mults_to_int(c) ==
    IF word_mults[c] \in DOMAIN digit_value
    THEN digit_value[word_mults[c]]
    ELSE 1

\* bonus = 0 if len_word < 4 else 5 * (len_word - 4)
LengthBonus(len_word) == IF len_word < 4 THEN 0 ELSE 5 * (len_word - 4)

----------------------------------------------------------------------------
(* Inputs: boards, multiplier layouts, dictionaries, prefix files *)

BoardRowsA == << <<"P", "A", "R", "E">>,
                 <<"Y", "T", "T", "S">>,
                 <<"S", "E", "D", "A">>,
                 <<"T", "O", "N", "E">> >>

BoardRowsB == << <<"C", "A", "T", "S">>,
                 <<"T", "S", "A", "C">>,
                 <<"A", "C", "S", "T">>,
                 <<"S", "T", "C", "A">> >>

MultRowsNone == << <<"-", "-", "-", "-">>,
                   <<"-", "-", "-", "-">>,
                   <<"-", "-", "-", "-">>,
                   <<"-", "-", "-", "-">> >>

MultRowsMixed == << <<"-", "D", "2", "-">>,
                    <<"3", "T", "-", "D">>,
                    <<"-", "-", "D", "2">>,
                    <<"T", "-", "3", "-">> >>

\* The top-left BOARD_SIZE x BOARD_SIZE corner of a 4 x 4 layout
\* (the whole layout from BOARD_SIZE = 4 on, repeating beyond it).
GridOf(rows) == [c \in Cells |-> rows[(c[1] % 4) + 1][(c[2] % 4) + 1]]

Boards == { GridOf(BoardRowsA), GridOf(BoardRowsB) }
MultLayouts == { GridOf(MultRowsNone), GridOf(MultRowsMixed) }

DictParty  == { <<"A","T">>, <<"P","A","T">>, <<"P","A","R","T","Y">>,
                <<"P","A","R","T","S">> }
DictPart   == { <<"A","T">>, <<"A","R","T">>, <<"P","A","R","T">>,
                <<"P","A","R","T","Y">>, <<"T","R","A","P">> }
DictCats   == { <<"C","A","T">>, <<"C","A","T","S">>, <<"A","T">>,
                <<"S","A","T">> }
DictParted == { <<"A","R","T">>, <<"P","A","R","T","E","D">>,
                <<"R","A","T","E","D">> }

Dictionaries == { DictParty, DictPart, DictCats, DictParted }

\* get_prefixes: one set per length PREFIX_LOWER_BOUND .. PREFIX_UPPER_BOUND.
\* The prefix files are generated from a word list; PrefixesOf(d) is the
\* list of sets obtained from the word list d (1-based here).
PrefixesOf(d) ==
    [k \in 1 .. (PREFIX_UPPER_BOUND - PREFIX_LOWER_BOUND + 1) |->
        { SubSeq(w, 1, k + PREFIX_LOWER_BOUND - 1) :
            w \in { u \in d : Len(u) >= k + PREFIX_LOWER_BOUND - 1 } }]

\* The prefix files may come from the dictionary in use, from a larger
\* word list or from another one.
PrefixSources == Dictionaries \cup { DictParty \cup DictPart \cup DictParted }

\* Every prefix set holds every prefix of that length of every dictionary word.
PrefixComplete ==
    \A w \in DICTIONARY :
        \A n \in PREFIX_LOWER_BOUND .. PREFIX_UPPER_BOUND :
            Len(w) >= n => SubSeq(w, 1, n) \in PREFIXES[n - PREFIX_LOWER_BOUND + 1]

----------------------------------------------------------------------------
(* Records of possible_words and the path lists *)

\* A record (word, score, path).  ref = 0: path is a list of its own
\* (path[:]), whose content is snap.  ref = k > 0: path is the path list of
\* traversal k itself.  snap is the content of the path buffer when the
\* record was appended.
Record(word, score, ref, snap) ==
    [word |-> word, score |-> score, ref |-> ref, snap |-> snap]

\* The content of the list a record holds, now
PathOf(r) == IF r.ref = 0 THEN r.snap ELSE paths[r.ref]

CurPath == paths[Len(paths)]

SetLast(p, v) == [p EXCEPT ![Len(p)] = v]

DelLast(p) == SubSeq(p, 1, Len(p) - 1)

Range(s) == { s[i] : i \in 1 .. Len(s) }

WordSet(recs) == { recs[i].word : i \in 1 .. Len(recs) }

Frame(s, word, word_pts, word_mult, at) ==
    [s |-> s, word |-> word, word_pts |-> word_pts, word_mult |-> word_mult,
     i |-> 1, at |-> at]

Top == stack[Len(stack)]

SetTop(f) == [stack EXCEPT ![Len(stack)] = f]

----------------------------------------------------------------------------
Init ==
    /\ board \in Boards
    /\ word_mults \in MultLayouts
    /\ DICTIONARY \in Dictionaries
    /\ PREFIXES \in { PrefixesOf(d) : d \in PrefixSources }
    /\ pruning = TRUE
    /\ pc = "idle"
    /\ next_start = 1
    /\ visited = [c \in Cells |-> FALSE]
    /\ paths = << >>
    /\ stack = << >>
    /\ possible_words = << >>
    /\ words_info = << >>
    /\ remove_bases = FALSE
    /\ pruned_words = {}

----------------------------------------------------------------------------
(* all_combos *)

\* all_combos, up to its loop: a solver that already holds results returns
\* them; otherwise the loop over the start cells begins.  A repeated call on
\* a solver that found nothing searches again.
AllCombos ==
    /\ pc \in {"idle", "returned"}
    /\ IF possible_words # << >>
       THEN /\ pc' = "returned"
            /\ UNCHANGED <<next_start, paths>>
       ELSE /\ pc' = "all_combos"
            /\ next_start' = 1
            /\ paths' = << >>
    /\ UNCHANGED <<inputs, pruning, visited, stack, possible_words,
                   words_info, remove_bases, pruned_words>>

\* One iteration of the loop of all_combos: a fresh visited dict, a fresh
\* path list [(x, y)], and the call of dfs.
StartTraversal ==
    /\ pc = "all_combos"
    /\ next_start <= NumCells
    /\ LET s == StartCell(next_start)
       IN  /\ visited' = [c \in Cells |-> FALSE]
           /\ paths' = Append(paths, <<s>>)
           /\ stack' = << Frame(s, <<board[s]>>, get_points(s),
                                word_mults_to_int(s), "entry") >>
    /\ next_start' = next_start + 1
    /\ pc' = "dfs"
    /\ UNCHANGED <<inputs, pruning, possible_words, words_info, remove_bases,
                   pruned_words>>

AllCombosReturn ==
    /\ pc = "all_combos"
    /\ next_start > NumCells
    /\ pc' = "returned"
    /\ UNCHANGED <<inputs, pruning, next_start, visited, paths, stack,
                   possible_words, words_info, remove_bases, pruned_words>>

----------------------------------------------------------------------------
(* dfs *)

\* The prune test, with a wrong index into PREFIXES (a mutant of Pruned)
PrunedShifted(len_word, temp_word) ==
    /\ pruning
    /\ PREFIX_LOWER_BOUND <= len_word
    /\ len_word <= PREFIX_UPPER_BOUND
    /\ temp_word \notin PREFIXES[PREFIX_UPPER_BOUND - len_word + 1]

\* PREFIX_LOWER_BOUND <= len_word <= PREFIX_UPPER_BOUND
\*     and temp_word not in PREFIXES[len_word - PREFIX_LOWER_BOUND]
Pruned(len_word, temp_word) ==
    /\ pruning
    /\ PREFIX_LOWER_BOUND <= len_word
    /\ len_word <= PREFIX_UPPER_BOUND
    /\ temp_word \notin PREFIXES[len_word - PREFIX_LOWER_BOUND + 1]

\* The mark is left in place (a mutant of Unmark)
UnmarkForgotten(vis, v) == vis

\* visited[v] = False
Unmark(vis, v) == [vis EXCEPT ![v] = FALSE]

\* The neighbour the loop of the top frame is at
LoopAt ==
    /\ pc = "dfs"
    /\ Top.at = "loop"
    /\ Top.i <= Len(graph[Top.s])

CurV == graph[Top.s][Top.i]
CurLen == Len(Top.word) + 1
CurTemp == Append(Top.word, board[CurV])

NextNeighbour == SetTop([Top EXCEPT !.i = @ + 1])

\* Entry of dfs, up to the loop: the word check, visited[s] = True,
\* path.append(None).
DfsEntry ==
    /\ pc = "dfs"
    /\ Top.at = "entry"
    /\ LET len_word == Len(Top.word)
       IN  possible_words' =
             IF len_word >= MIN_WORD_LEN /\ Top.word \in DICTIONARY
             THEN Append(possible_words,
                         Record(Top.word,
                                Top.word_pts * Top.word_mult + LengthBonus(len_word),
                                0, CurPath))
             ELSE possible_words
    /\ visited' = [visited EXCEPT ![Top.s] = TRUE]
    /\ paths' = [paths EXCEPT ![Len(paths)] = Append(@, None)]
    /\ stack' = SetTop([Top EXCEPT !.at = "loop", !.i = 1])
    /\ UNCHANGED <<inputs, pruning, pc, next_start, words_info, remove_bases,
                   pruned_words>>

\* if not visited[v]: fails
DfsSkipVisited ==
    /\ LoopAt
    /\ visited[CurV]
    /\ stack' = NextNeighbour
    /\ UNCHANGED <<inputs, pruning, pc, next_start, visited, paths,
                   possible_words, words_info, remove_bases, pruned_words>>

\* path[-1] = v, then the prefix check fails: continue
DfsPrune ==
    /\ LoopAt
    /\ ~visited[CurV]
    /\ CurLen >= MIN_WORD_LEN
    /\ Pruned(CurLen, CurTemp)
    /\ paths' = [paths EXCEPT ![Len(paths)] = SetLast(@, CurV)]
    /\ stack' = NextNeighbour
    /\ UNCHANGED <<inputs, pruning, pc, next_start, visited, possible_words,
                   words_info, remove_bases, pruned_words>>

\* path[-1] = v, then len_word == MAX_WORD_LEN and temp_word in DICTIONARY:
\* possible_words.append((word, score + bonus, path)); continue
DfsRecordAtMax ==
    /\ LoopAt
    /\ ~visited[CurV]
    /\ CurLen >= MIN_WORD_LEN
    /\ ~Pruned(CurLen, CurTemp)
    /\ CurLen = MAX_WORD_LEN
    /\ CurTemp \in DICTIONARY
    /\ paths' = [paths EXCEPT ![Len(paths)] = SetLast(@, CurV)]
    /\ possible_words' =
         Append(possible_words,
                Record(Top.word,
                       Top.word_pts * Top.word_mult + LengthBonus(CurLen),
                       Len(paths), SetLast(CurPath, CurV)))
    /\ stack' = NextNeighbour
    /\ UNCHANGED <<inputs, pruning, pc, next_start, visited, words_info,
                   remove_bases, pruned_words>>

\* path[-1] = v, neither continue is taken: visited[v] = True and the
\* recursive call
DfsRecurse ==
    /\ LoopAt
    /\ ~visited[CurV]
    /\ ~ (/\ CurLen >= MIN_WORD_LEN
          /\ \/ Pruned(CurLen, CurTemp)
             \/ CurLen = MAX_WORD_LEN /\ CurTemp \in DICTIONARY)
    /\ paths' = [paths EXCEPT ![Len(paths)] = SetLast(@, CurV)]
    /\ visited' = [visited EXCEPT ![CurV] = TRUE]
    /\ stack' = Append(stack,
                       Frame(CurV, CurTemp, Top.word_pts + get_points(CurV),
                             Top.word_mult * word_mults_to_int(CurV), "entry"))
    /\ UNCHANGED <<inputs, pruning, pc, next_start, possible_words,
                   words_info, remove_bases, pruned_words>>

\* The loop is over: del path[-1] and return; in the calling dfs,
\* visited[v] = False and the loop goes on; in all_combos, the next start.
DfsReturn ==
    /\ pc = "dfs"
    /\ Top.at = "loop"
    /\ Top.i > Len(graph[Top.s])
    /\ paths' = [paths EXCEPT ![Len(paths)] = DelLast(@)]
    /\ IF Len(stack) = 1
       THEN /\ stack' = << >>
            /\ pc' = "all_combos"
            /\ UNCHANGED visited
       ELSE LET caller == stack[Len(stack) - 1]
                v == graph[caller.s][caller.i]
            IN  /\ visited' = Unmark(visited, v)
                /\ stack' = [SubSeq(stack, 1, Len(stack) - 1)
                               EXCEPT ![Len(stack) - 1] =
                                        [caller EXCEPT !.i = @ + 1]]
                /\ UNCHANGED pc
    /\ UNCHANGED <<inputs, pruning, next_start, possible_words, words_info,
                   remove_bases, pruned_words>>

----------------------------------------------------------------------------
(* check_words *)

\* Python's `a in b` for strings
IsSubstring(a, b) ==
    \E k \in 0 .. (Len(b) - Len(a)) : SubSeq(b, k + 1, k + Len(a)) = a

\* [word for word in self.possible_words if word[0] in DICTIONARY]
FilterWords(recs) == SelectSeq(recs, LAMBDA r : r.word \in DICTIONARY)

\* r goes behind every record whose score is not larger (the sort is stable)
InsertByScore(sorted, r) ==
    LET n == Cardinality({ k \in 1 .. Len(sorted) : sorted[k].score <= r.score })
    IN  SubSeq(sorted, 1, n) \o <<r>> \o SubSeq(sorted, n + 1, Len(sorted))

RECURSIVE SortedByScore(_)
SortedByScore(recs) ==
    IF recs = << >> THEN << >>
    ELSE InsertByScore(SortedByScore(SubSeq(recs, 1, Len(recs) - 1)),
                       recs[Len(recs)])

\* The list is left in discovery order (a mutant of SortByScore)
SortByScoreSkipped(recs) == recs

\* words_info.sort(key=lambda x: x[1])
SortByScore(recs) == SortedByScore(recs)

\* { j for j in words_info if all(j[0] not in k for k in all_words) }
BaseFiltered(recs) ==
    LET all_words == WordSet(recs)
    IN  { r \in Range(recs) : \A k \in all_words : ~IsSubstring(r.word, k) }

\* {word: (score, path) for word, score, path in words_info}: a later
\* entry of the list replaces an earlier one of the same word
ToDict(recs) ==
    [w \in WordSet(recs) |->
        LET last == CHOOSE k \in 1 .. Len(recs) :
                        /\ recs[k].word = w
                        /\ \A j \in (k + 1) .. Len(recs) : recs[j].word # w
        IN  [score |-> recs[last].score, ref |-> recs[last].ref,
             snap |-> recs[last].snap]]

\* check_words(remove_bases), called on a solved board.  (On an unsolved
\* board it first calls all_combos.)  With remove_bases the kept records go
\* into a set; a record holds a list, so adding one raises TypeError.
CheckWords ==
    /\ pc \in {"returned", "checked"}
    /\ \E rb \in BOOLEAN :
         LET sorted == SortByScore(FilterWords(possible_words))
         IN  /\ remove_bases' = rb
             /\ IF ~rb
                THEN /\ words_info' = ToDict(sorted)
                     /\ pc' = "checked"
                ELSE IF BaseFiltered(sorted) = {}
                THEN /\ words_info' = ToDict(<< >>)
                     /\ pc' = "checked"
                ELSE /\ pc' = "raised"
                     /\ UNCHANGED words_info
    /\ UNCHANGED <<inputs, pruning, next_start, visited, paths, stack,
                   possible_words, pruned_words>>

----------------------------------------------------------------------------
(* The search run again with the prefix check of dfs switched off *)

RerunWithoutPruning ==
    /\ pc = "returned"
    /\ pruning
    /\ pruned_words' = WordSet(possible_words)
    /\ pruning' = FALSE
    /\ possible_words' = << >>
    /\ paths' = << >>
    /\ next_start' = 1
    /\ pc' = "all_combos"
    /\ UNCHANGED <<inputs, visited, stack, words_info, remove_bases>>

----------------------------------------------------------------------------
Search ==
    \/ AllCombos
    \/ StartTraversal
    \/ AllCombosReturn
    \/ DfsEntry
    \/ DfsSkipVisited
    \/ DfsPrune
    \/ DfsRecordAtMax
    \/ DfsRecurse
    \/ DfsReturn

Next == Search \/ CheckWords

Spec == Init /\ [][Next]_vars

\* The two runs to compare: with the prefix check, then without it, on
\* inputs whose prefix sets are complete.
InitCompare ==
    /\ Init
    /\ PrefixComplete
    /\ word_mults = GridOf(MultRowsMixed)

NextCompare == Search \/ RerunWithoutPruning

SpecCompare == InitCompare /\ [][NextCompare]_vars

----------------------------------------------------------------------------
(* Notions the properties are stated in *)

\* Some simple path of adjacent cells spells w[k..] from cell c, the cells
\* of `used` (c among them) being taken.
RECURSIVE SpellFrom(_, _, _, _)
SpellFrom(w, k, c, used) ==
    /\ board[c] = w[k]
    /\ \/ k = Len(w)
       \/ \E v \in Cells \ used :
            /\ Adjacent(c, v)
            /\ SpellFrom(w, k + 1, v, used \cup {v})

Spellable(w) == \E c \in Cells : SpellFrom(w, 1, c, {c})

\* p is a path of distinct, pairwise adjacent cells that spells word
ValidPath(p, word) ==
    /\ Len(p) = Len(word)
    /\ \A k \in 1 .. Len(p) : p[k] \in Cells /\ board[p[k]] = word[k]
    /\ \A j, k \in 1 .. Len(p) : j # k => p[j] # p[k]
    /\ \A k \in 1 .. (Len(p) - 1) : Adjacent(p[k], p[k + 1])

RECURSIVE SumPoints(_)
SumPoints(cells) ==
    IF cells = << >> THEN 0
    ELSE LET c == cells[Len(cells)]
             base == letter_points[board[c]]
             pts == CASE word_mults[c] = "D" -> 2 * base
                      [] word_mults[c] = "T" -> 3 * base
                      [] OTHER -> base
         IN  SumPoints(SubSeq(cells, 1, Len(cells) - 1)) + pts

RECURSIVE ProductMults(_)
ProductMults(cells) ==
    IF cells = << >> THEN 1
    ELSE LET c == cells[Len(cells)]
             f == CASE word_mults[c] = "2" -> 2
                    [] word_mults[c] = "3" -> 3
                    [] OTHER -> 1
         IN  ProductMults(SubSeq(cells, 1, Len(cells) - 1)) * f

ExpectedScore(cells) ==
    SumPoints(cells) * ProductMults(cells)
      + (IF Len(cells) < 4 THEN 0 ELSE 5 * (Len(cells) - 4))

Records == Range(possible_words)

\* The dictionary words among the found words
FoundWords == { w \in WordSet(possible_words) : w \in DICTIONARY }

Marked == { c \in Cells : visited[c] }

StackCells == [k \in 1 .. Len(stack) |-> stack[k].s]

----------------------------------------------------------------------------
(* The properties *)

\* C1 - Coverage: with complete prefix sets, when all_combos has returned,
\* every dictionary word of MIN_WORD_LEN to MAX_WORD_LEN letters that some
\* simple path of adjacent cells spells is the word of some record.
C1_Coverage ==
    (pc = "returned" /\ pruning /\ PrefixComplete) =>
        \A w \in DICTIONARY :
            (/\ MIN_WORD_LEN <= Len(w)
             /\ Len(w) <= MAX_WORD_LEN
             /\ Spellable(w)) => w \in WordSet(possible_words)

\* C2 - No false positives: the word of every record of possible_words is
\* in the dictionary.
C2_NoFalsePositives ==
    \A r \in Records : r.word \in DICTIONARY

\* C3 - Path validity: when all_combos has returned, the path of every
\* record has as many cells as the word has letters, the cells are
\* distinct, consecutive cells are adjacent, and their letters spell the word.
C3_PathValidity ==
    pc = "returned" => \A r \in Records : ValidPath(PathOf(r), r.word)

\* C4 - Score: the score of every record is the sum of the letter points
\* of the cells spelling its word (doubled on D, tripled on T) times the
\* product of their word multipliers, plus the length bonus of the word.
C4_Score ==
    \A r \in Records :
        r.score = ExpectedScore(SubSeq(r.snap, 1, Len(r.word)))

\* C5 - Pruning soundness: with complete prefix sets, the search without
\* the prefix check finds no word the search with the check did not find,
\* and once it has returned it has found all of them: the same set of words.
C5_PruningSound ==
    /\ ~pruning => WordSet(possible_words) \subseteq pruned_words
    /\ (~pruning /\ pc = "returned") => pruned_words \subseteq WordSet(possible_words)

\* The run without the check has returned, it found a word longer than the
\* prefix window, and the board has adjacent cells whose two letters are in
\* no prefix set (the check had branches to cut).
C5_Witness ==
    /\ ~pruning
    /\ pc = "returned"
    /\ \E w \in WordSet(possible_words) : Len(w) > PREFIX_UPPER_BOUND
    /\ \E a, b \in Cells :
         Adjacent(a, b) /\ <<board[a], board[b]>> \notin PREFIXES[1]

\* C6 - Base-word suppression: after check_words(remove_bases=True) a found
\* dictionary word is absent from words_info exactly if it is a substring
\* of another found dictionary word.
C6_BaseSuppression ==
    (pc = "checked" /\ remove_bases) =>
        \A w \in FoundWords :
            (w \notin DOMAIN words_info) <=>
                (\E k \in FoundWords \ {w} : IsSubstring(w, k))

\* C7 - Best per word: after check_words(remove_bases=False), words_info
\* has one entry per dictionary word of possible_words, holding the largest
\* score of the records of that word.
C7_BestPerWord ==
    (pc = "checked" /\ ~remove_bases) =>
        /\ DOMAIN words_info = FoundWords
        /\ \A w \in FoundWords :
             /\ \E r \in Records : r.word = w /\ r.score = words_info[w].score
             /\ \A r \in Records : r.word = w => r.score <= words_info[w].score

\* check_words(False) has run on a list where some word was found first
\* with a larger score and later with a smaller one.
C7_Witness ==
    /\ pc = "checked"
    /\ ~remove_bases
    /\ \E j, k \in 1 .. Len(possible_words) :
         /\ j < k
         /\ possible_words[j].word = possible_words[k].word
         /\ possible_words[j].word \in DICTIONARY
         /\ possible_words[j].score > possible_words[k].score

\* C8 - Depth bound: no call of dfs has a word longer than MAX_WORD_LEN and
\* the path buffer never holds more than MAX_WORD_LEN cells.
C8_DepthBound ==
    pc = "dfs" =>
        /\ \A k \in 1 .. Len(stack) : Len(stack[k].word) <= MAX_WORD_LEN
        /\ Len(SelectSeq(CurPath, LAMBDA c : c # None)) <= MAX_WORD_LEN

\* C9 - Stored paths: every record holds a list of its own, whose content
\* is, at any later time, the content the path buffer had when the record
\* was appended.
C9_PathsNotAliased ==
    \A r \in Records : r.ref = 0 /\ PathOf(r) = r.snap

\* The state part of the discipline.  At the head of the loop of the running
\* dfs the marked cells are the cells of the calls on the stack, and the
\* buffer holds these cells and one more slot; at a recursive entry the
\* marked cells are the cells of the buffer, which are the cells of the
\* calls on the stack.
VisitDiscipline ==
    pc = "dfs" =>
        IF Top.at = "entry"
        THEN /\ CurPath = StackCells
             /\ Len(stack) > 1 => Marked = Range(CurPath)
        ELSE /\ Len(CurPath) = Len(stack) + 1
             /\ SubSeq(CurPath, 1, Len(stack)) = StackCells
             /\ Marked = Range(StackCells)

\* A neighbour dealt with inside one call (visited, pruned or recorded)
\* leaves the marks as they were; a return leaves the buffer with the
\* content it had at the entry of the returning call, and the marks as they
\* were before the neighbour was entered.
VisitStep ==
    /\ (pc = "dfs" /\ pc' = "dfs" /\ Len(stack') = Len(stack)
          /\ Top.at = "loop") => visited' = visited
    /\ (pc = "dfs" /\ Len(stack') < Len(stack)) => CurPath' = StackCells
    /\ (pc = "dfs" /\ Len(stack') < Len(stack) /\ Len(stack') > 0) =>
          Marked' = { stack'[k].s : k \in 1 .. Len(stack') }

\* C10 - Visit/unvisit discipline: whichever exit a neighbour takes, the
\* marks at the next neighbour are the marks before it; a returning dfs
\* leaves the path buffer as it was on entry; at every recursive entry the
\* marked cells are exactly the cells of the path buffer.
C10_VisitUnvisit == [] VisitDiscipline /\ [][VisitStep]_vars

\* Inside a nested call the loop has gone past a neighbour that was not
\* skipped as visited, and this traversal has recorded a word at
\* MAX_WORD_LEN: the three exits have been taken.
C10_Witness ==
    /\ pc = "dfs"
    /\ Len(stack) >= 3
    /\ Top.at = "loop"
    /\ Top.i > 1
    /\ ~visited[graph[Top.s][Top.i - 1]]
    /\ \E r \in Records : r.ref = Len(paths)

====
